---- MODULE Spec2Model ----
(***************************************************************************)
(* Order / payment lifecycle of the GrowWise backend.                      *)
(*                                                                         *)
(*   - the order store (SupabaseAdapter over the "orders" table),          *)
(*   - POST /create-checkout-session (routes/payment.js),                  *)
(*   - POST /api/payment/webhook (server.js).                              *)
(*                                                                         *)
(* Node's event loop runs each handler until its next await; every await   *)
(* of a store or provider call is one atomic step of the model, and the    *)
(* steps of different requests interleave freely.                          *)
(*                                                                         *)
(* Money is kept in cents; a JavaScript number holding an amount is a pair  *)
(* <<cents, drift>>, the drift saying on which side of the exact value the *)
(* double lies.  Time is kept in minutes.                                  *)
(***************************************************************************)
EXTENDS Integers, Sequences, FiniteSets, TLC

\* ------------------------------------------------------------------ bounds
MaxCheckouts == 2
MaxWebhooks == 2
MaxFaults == 1
MaxItems == 2
MaxQuantity == 2
MaxNetworkRetries == 1

\* ------------------------------------------------- constants of the program
\* routes/payment.js: new Date(Date.now() - 5 * 60 * 1000)
FiveMinutes == 5

\* ----------------------------------------------------------- identifiers
\* Order ids ("ORD-..."), provider session ids ("cs_...") and payment intent
\* ids ("pi_...") are strings of different shapes; a tag keeps them apart.
NullId == <<"null", 0>>
OrderId(n) == <<"ORD", n>>
SessionId(k) == <<"cs", k>>
\* A checkout session of the same provider account that this program did
\* not create (its metadata is whatever its creator put there).
ExternalSession == <<"cs_ext", 1>>
PaymentIntentId(k) == <<"pi", k>>

NoEmail == "none"
Emails == {NoEmail, "a@x.com"}
\* The email the provider collects on its page when none was prefilled.
CollectedEmail == "a@x.com"

NoAmount == 0 - 1
NoCurrency == "none"

\* ----------------------------------------------------------------- numbers
\* The double computed for an amount of c cents is c, or lies within a
\* fraction of a cent below or above it.
Drift == {0 - 1, 0, 1}

Float(c) == {<<c, d>> : d \in Drift}

\* A number that was not given (undefined).
NoFloat == <<0 - 1, 0>>

\* Math.round(x)
MathRound(f) == f[1]

\* A DECIMAL(10, 2) column truncating where PostgreSQL rounds.
Decimal2_Truncated(f) == IF f[2] < 0 THEN f[1] - 1 ELSE f[1]

\* DECIMAL(10, 2): the value is rounded to the nearest cent when stored.
Decimal2(f) == f[1]

\* ------------------------------------------------------------------ carts
Item(id, price, quantity) ==
    [id |-> id, name |-> "Course", price |-> price, quantity |-> quantity]
CartA == <<Item("c1", 4999, 2)>>
Carts == {<< >>, CartA}

\* The carts the route must refuse: no item at all; an item without id,
\* without name, without price or without quantity (the field is undefined),
\* with an empty id or name, or with quantity 0; and carts of well-formed
\* items whose total is zero or negative.
BadCarts ==
    {<< >>,
     <<[name |-> "Course", price |-> 4999, quantity |-> 2]>>,
     <<[id |-> "c1", price |-> 4999, quantity |-> 2]>>,
     <<[id |-> "c1", name |-> "Course", quantity |-> 2]>>,
     <<[id |-> "c1", name |-> "Course", price |-> 4999]>>,
     <<[id |-> "", name |-> "Course", price |-> 4999, quantity |-> 2]>>,
     <<[id |-> "c1", name |-> "", price |-> 4999, quantity |-> 2]>>,
     <<Item("c1", 4999, 0)>>,
     <<Item("c1", 4999, 1), [id |-> "c2", name |-> "Course", price |-> 7]>>,
     <<Item("c1", 0, 1)>>,
     <<Item("c1", 0 - 7, 1)>>,
     <<Item("c1", 7, 1), Item("c2", 0 - 7, 1)>>}

\* The valid carts of up to MaxItems items, at three prices in whole cents
\* and quantities up to MaxQuantity.
Prices == {1, 7, 4999}
ItemIds == <<"c1", "c2", "c3", "c4">>
PricedCarts ==
    UNION {{[k \in 1..n |-> Item(ItemIds[k], c[k][1], c[k][2])] :
               c \in [1..n -> Prices \X (1..MaxQuantity)]} : n \in 1..MaxItems}

\* The priced carts at one price: the duplicate lookups of the store read
\* ids and quantities only.
PlainCarts == {c \in PricedCarts : \A k \in 1..Len(c) : c[k].price = 7}

RECURSIVE SumCents(_)
\* items.reduce((sum, item) => sum + (item.price * item.quantity * 100), 0)
SumCents(items) ==
    IF items = << >> THEN 0
    ELSE Head(items).price * Head(items).quantity + SumCents(Tail(items))

\* The double totalAmount, and totalAmount / 100 as handed to createOrder.
FloatTotal(items) == Float(SumCents(items))

RECURSIVE LineItemsTotal(_, _)
\* The provider's total of the line items: unit_amount * quantity, with
\* unit_amount: Math.round(item.price * 100).
LineItemsTotal(items, d) ==
    IF items = << >> THEN 0
    ELSE MathRound(<<Head(items).price, d>>) * Head(items).quantity
         + LineItemsTotal(Tail(items), d)

\* items.map(i => ({ id: i.id, quantity: i.quantity }))
IdQuantity(items) ==
    [k \in 1..Len(items) |-> [id |-> items[k].id, quantity |-> items[k].quantity]]

VARIABLES
    configured,  \* STRIPE_SECRET_KEY and STRIPE_WEBHOOK_SECRET are set
    orders,      \* the orders table: orders[n] is the row with id OrderId(n)
    sessions,    \* the provider's checkout sessions created by this program
    now,         \* the clock
    faults,      \* store / provider calls that have failed so far
    nWrites,     \* successful UPDATEs of the orders table so far
    chk,         \* the checkout requests
    wh,          \* the webhook requests
    got          \* the last lookup request (GET /order/:orderId,
                 \* findPendingOrderByItems) and its answer

vars == <<configured, orders, sessions, now, faults, nWrites, chk, wh, got>>

Checkouts == 1..MaxCheckouts
Webhooks == 1..MaxWebhooks

\* --------------------------------------------------------- the order store
\* A row of the orders table (the columns the lifecycle reads or writes).
NewOrder(items, email, total, t) ==
    [status |-> "pending",
     items |-> items,
     customerEmail |-> email,
     totalAmount |-> total,
     createdAt |-> t,
     currency |-> "usd",
     stripeSessionId |-> NullId,
     amountPaid |-> NoAmount,
     errorMessage |-> "none"]

\* No row: what a lookup returns when nothing matches (null).
NoOrder == [id |-> NullId]

\* A faulty mapping that loses the status column: every row reads as pending.
Row_StatusLost(n) == [id |-> OrderId(n)] @@ [orders[n] EXCEPT !.status = "pending"]

\* mapSupabaseOrderToOrder, for the row with index n.
Row(n) == [id |-> OrderId(n)] @@ orders[n]

Found(o) == o.id # NullId

\* SELECT * FROM orders WHERE stripe_session_id = sid (.single()).
FindOrderByStripeSessionId(sid) ==
    IF \E n \in 1..Len(orders) : orders[n].stripeSessionId = sid
    THEN Row(CHOOSE n \in 1..Len(orders) : orders[n].stripeSessionId = sid)
    ELSE NoOrder

\* A lookup by id alone.
GetOrderById_NoFallback(id) ==
    IF \E n \in 1..Len(orders) : OrderId(n) = id
    THEN Row(CHOOSE n \in 1..Len(orders) : OrderId(n) = id)
    ELSE NoOrder

\* SELECT by id; when no row has that id the adapter retries the same value
\* as a Stripe session id.
GetOrderById(id) ==
    IF \E n \in 1..Len(orders) : OrderId(n) = id
    THEN Row(CHOOSE n \in 1..Len(orders) : OrderId(n) = id)
    ELSE FindOrderByStripeSessionId(id)

\* The rows with customer_email = email, newest first.
RECURSIVE NewestFirst(_)
NewestFirst(S) ==
    IF S = {} THEN << >>
    ELSE LET n == CHOOSE m \in S : \A k \in S :
                      \/ orders[m].createdAt > orders[k].createdAt
                      \/ orders[m].createdAt = orders[k].createdAt /\ m >= k
         IN  <<Row(n)>> \o NewestFirst(S \ {n})

GetOrdersByEmail(email) ==
    NewestFirst({n \in 1..Len(orders) : orders[n].customerEmail = email})

\* How often an id occurs among the items of a cart.
IdCount(items, id) == Cardinality({k \in 1..Len(items) : items[k].id = id})

RECURSIVE Copies(_, _)
Copies(x, n) == IF n = 0 THEN << >> ELSE <<x>> \o Copies(x, n - 1)

RECURSIVE SortedIdsFrom(_, _)
SortedIdsFrom(items, k) ==
    IF k > Len(ItemIds) THEN << >>
    ELSE Copies(ItemIds[k], IdCount(items, ItemIds[k])) \o SortedIdsFrom(items, k + 1)

\* items.map(item => item.id).sort().join(','): the ids in ascending order
\* (ItemIds lists them in that order).
SortedIds(items) == SortedIdsFrom(items, 1)

\* findPendingOrderByItems: the rows the query returns and the filter keeps.
\* The query has no ORDER BY, so find() may meet any of them first.
PendingOrdersByItems(items, email) ==
    {n \in 1..Len(orders) :
        /\ orders[n].status = "pending"
        /\ orders[n].createdAt >= now - FiveMinutes
        /\ email # NoEmail => orders[n].customerEmail = email
        /\ SortedIds(orders[n].items) = SortedIds(items)}

\* The additional data of an update: a field that is not given is null.
Patch(sid, amountPaid, currency, email, error) ==
    [stripeSessionId |-> sid, amountPaid |-> amountPaid, currency |-> currency,
     customerEmail |-> email, error |-> error]

\* An update that also rewrites the items column.
ApplyUpdate_ItemsCleared(o, status, patch) == [o EXCEPT !.status = status, !.items = << >>]

\* An update that never writes the stripe_session_id column.
ApplyUpdate_SessionIgnored(o, status, patch) ==
    [o EXCEPT
        !.status = status,
        !.amountPaid = IF patch.amountPaid # NoFloat THEN Decimal2(patch.amountPaid) ELSE @,
        !.currency = IF patch.currency # NoCurrency THEN patch.currency ELSE @,
        !.customerEmail = IF patch.customerEmail # NoEmail THEN patch.customerEmail ELSE @,
        !.errorMessage = IF patch.error # "none" THEN patch.error ELSE @]

\* updateData: status always, the other columns only when given.
ApplyUpdate(o, status, patch) ==
    [o EXCEPT
        !.status = status,
        !.stripeSessionId =
            IF patch.stripeSessionId # NullId THEN patch.stripeSessionId ELSE @,
        !.amountPaid = IF patch.amountPaid # NoFloat THEN Decimal2(patch.amountPaid) ELSE @,
        !.currency = IF patch.currency # NoCurrency THEN patch.currency ELSE @,
        !.customerEmail = IF patch.customerEmail # NoEmail THEN patch.customerEmail ELSE @,
        !.errorMessage = IF patch.error # "none" THEN patch.error ELSE @]

\* The table without its unique index.
UniqueSessionOk_NoIndex(n, row) == TRUE

\* orders_stripe_session_id_unique: a partial unique index over the non-null
\* stripe_session_id values.
UniqueSessionOk(n, row) ==
    \/ row.stripeSessionId = NullId
    \/ \A m \in 1..Len(orders) : m # n => orders[m].stripeSessionId # row.stripeSessionId

\* The idempotency guard of updateOrderStatus.
AlreadyPaid(existing, status) ==
    Found(existing) /\ existing.status = status /\ status = "paid"


\* An UPDATE that only needs its row to exist.
CanWrite_IdOnly(id, status, patch) == \E n \in 1..Len(orders) : OrderId(n) = id

\* UPDATE orders SET ... WHERE id = id, .single(): it fails when no row has
\* that id and when the unique index rejects the new row.
CanWrite(id, status, patch) ==
    \E n \in 1..Len(orders) :
        /\ OrderId(n) = id
        /\ UniqueSessionOk(n, ApplyUpdate(orders[n], status, patch))

Written(id, status, patch) ==
    LET n == CHOOSE m \in 1..Len(orders) : OrderId(m) = id
    IN  [orders EXCEPT ![n] = ApplyUpdate(orders[n], status, patch)]

\* ------------------------------------------------------------ the provider
\* A session created without metadata.orderId.
NewSession_NoOrderId(orderId, amount, email) ==
    [orderId |-> NullId, status |-> "open", amount |-> amount, email |-> email]

NewSession(orderId, amount, email) ==
    [orderId |-> orderId, status |-> "open", amount |-> amount, email |-> email]

\* const idempotencyKey = `checkout_${order.id}_${Date.now()}`
IdempotencyKey(orderId, t) == <<"checkout", orderId, t>>

\* A provider that creates a session for every request that reaches it.
SessionCreate_KeyIgnored(ss, s) == Append(ss, s)

\* The provider creates a session for the first request carrying an
\* idempotency key and answers a later request carrying the same key with
\* that session.
SessionCreate(ss, s) ==
    IF \E k \in 1..Len(ss) : ss[k].key = s.key THEN ss ELSE Append(ss, s)

RECURSIVE Transmitted(_, _, _)
\* The request of one sessions.create call reaching the provider n times:
\* once, and once more for every retry the SDK makes, under the same key,
\* after a transmission whose answer was lost.
Transmitted(ss, s, n) ==
    IF n = 0 THEN ss ELSE Transmitted(SessionCreate(ss, s), s, n - 1)

IsCreated(sid) == \E k \in 1..Len(sessions) : SessionId(k) = sid

SessionOf(sid) == sessions[CHOOSE k \in 1..Len(sessions) : SessionId(k) = sid]

\* stripe.checkout.sessions.retrieve(sid).status
RetrieveStatus(sid) == IF IsCreated(sid) THEN SessionOf(sid).status ELSE "complete"

\* session.amount_total of the event
EventAmount(sid) == IF IsCreated(sid) THEN SessionOf(sid).amount ELSE SumCents(CartA)

\* session.currency: the sessions of this program are priced in 'usd'.
EventCurrency(sid) == IF IsCreated(sid) THEN "usd" ELSE "eur"

\* session.customer_email || session.customer_details?.email
EventEmail(sid) ==
    IF IsCreated(sid) /\ SessionOf(sid).email # NoEmail
    THEN SessionOf(sid).email ELSE CollectedEmail

\* A fault: a store or provider call that fails (a database hiccup, a
\* network error, a timeout).
MayFail == faults < MaxFaults

\* ------------------------------------------------------- checkout requests
IdleCheckout ==
    [pc |-> "idle", items |-> << >>, email |-> NoEmail,
     found |-> NullId, foundSid |-> NullId, order |-> 0, sess |-> 0,
     code |-> 0, respSession |-> NullId, respOrder |-> NullId,
     prior |-> {}, rivals |-> {}, sent |-> 0]

IdleWebhook ==
    [pc |-> "idle", kind |-> "none", sigOk |-> TRUE, sid |-> NullId, meta |-> NullId,
     existingStatus |-> "unread", existingSid |-> NullId, target |-> NullId,
     code |-> 0, log |-> {}, wrote |-> 0, prior |-> {}, n0 |-> 0]

\* !item.x: the field is undefined, or it is '' or 0.
Lacks(item, field, empty) == field \notin DOMAIN item \/ item[field] = empty

\* A validation that does not look at the name of an item.
ValidItems_NameIgnored(items) ==
    /\ Len(items) > 0
    /\ \A k \in 1..Len(items) :
          /\ ~Lacks(items[k], "id", "")
          /\ "price" \in DOMAIN items[k]
          /\ ~Lacks(items[k], "quantity", 0)

\* Items array is required; each item must have id, name, price, quantity:
\* !item.id || !item.name || typeof item.price !== 'number' || !item.quantity
ValidItems(items) ==
    /\ Len(items) > 0
    /\ \A k \in 1..Len(items) :
          /\ ~Lacks(items[k], "id", "")
          /\ ~Lacks(items[k], "name", "")
          /\ "price" \in DOMAIN items[k]
          /\ ~Lacks(items[k], "quantity", 0)

\* A predicate that does not look at the age of the order.
IsRecentPending_AnyAge(o, items, t) ==
    /\ o.status = "pending"
    /\ Len(o.items) = Len(items)
    /\ IdQuantity(o.items) = IdQuantity(items)

\* The predicate of existingOrders.find(...).
IsRecentPending(o, items, t) ==
    /\ o.status = "pending"
    /\ Len(o.items) = Len(items)
    /\ IdQuantity(o.items) = IdQuantity(items)
    /\ o.createdAt > t - FiveMinutes

\* existingOrders.find(...): the first match, NoOrder when there is none.
RecentPendingOrder(existing, items, t) ==
    IF \E k \in 1..Len(existing) : IsRecentPending(existing[k], items, t)
    THEN existing[CHOOSE k \in 1..Len(existing) :
            /\ IsRecentPending(existing[k], items, t)
            /\ \A j \in 1..(k - 1) : ~IsRecentPending(existing[j], items, t)]
    ELSE NoOrder

\* The request arrives: configuration check, validation, total.
CheckoutStart(i, items, email) ==
    /\ chk[i].pc = "idle"
    /\ i > 1 => chk[i - 1].pc # "idle"
    /\ LET c == [chk[i] EXCEPT !.items = items, !.email = email,
                    !.prior = {j \in Checkouts : chk[j].code = 200}]
       IN  chk' = [chk EXCEPT ![i] =
              IF ~configured THEN [c EXCEPT !.pc = "done", !.code = 500]
              ELSE IF ~ValidItems(items) THEN [c EXCEPT !.pc = "done", !.code = 400]
              ELSE IF SumCents(items) <= 0 THEN [c EXCEPT !.pc = "done", !.code = 400]
              ELSE [c EXCEPT !.pc = "lookup"]]
    /\ UNCHANGED <<got, configured, orders, sessions, now, faults, nWrites, wh>>

\* await orderService.getOrdersByEmail(customerEmail || ''), then the find.
\* orderService turns a failing read into [].
CheckoutLookup(i, ok) ==
    /\ chk[i].pc = "lookup"
    /\ ~ok => MayFail
    /\ faults' = IF ok THEN faults ELSE faults + 1
    /\ LET key == IF chk[i].email = NoEmail THEN "" ELSE chk[i].email
           existing == IF ok THEN GetOrdersByEmail(key) ELSE << >>
           recent == RecentPendingOrder(existing, chk[i].items, now)
       IN  chk' = [chk EXCEPT ![i] =
              IF Found(recent) /\ recent.stripeSessionId # NullId
              THEN [@ EXCEPT !.pc = "retrieve", !.found = recent.id,
                             !.foundSid = recent.stripeSessionId]
              ELSE [@ EXCEPT !.pc = "create"]]
    /\ UNCHANGED <<got, configured, orders, sessions, now, nWrites, wh>>

\* await stripe.checkout.sessions.retrieve(recentPendingOrder.stripeSessionId)
CheckoutRetrieve(i, ok) ==
    /\ chk[i].pc = "retrieve"
    /\ ~ok => MayFail
    /\ faults' = IF ok THEN faults ELSE faults + 1
    /\ chk' = [chk EXCEPT ![i] =
          IF ok /\ RetrieveStatus(chk[i].foundSid) = "open"
          THEN [@ EXCEPT !.pc = "done", !.code = 200,
                         !.respSession = chk[i].foundSid,
                         !.respOrder = chk[i].found,
                         !.found = NullId, !.foundSid = NullId]
          ELSE [@ EXCEPT !.pc = "create", !.found = NullId, !.foundSid = NullId]]
    /\ UNCHANGED <<got, configured, orders, sessions, now, nWrites, wh>>

\* History: the other requests for the same cart and customer that have
\* passed the duplicate lookup and not yet created their order.
Rivals(i) ==
    {j \in Checkouts \ {i} :
        /\ chk[j].pc = "create"
        /\ chk[j].items = chk[i].items
        /\ chk[j].email = chk[i].email}

\* await orderService.createOrder({... status: 'pending'})
CheckoutCreateOrder(i, ok) ==
    /\ chk[i].pc = "create"
    /\ ~ok => MayFail
    /\ faults' = IF ok THEN faults ELSE faults + 1
    /\ IF ok
       THEN /\ \E total \in FloatTotal(chk[i].items) :
                  orders' = Append(orders,
                      NewOrder(chk[i].items, chk[i].email, Decimal2(total), now))
            /\ chk' = [chk EXCEPT ![i].pc = "session", ![i].order = Len(orders) + 1,
                                  ![i].rivals = Rivals(i)]
       ELSE /\ orders' = orders
            /\ chk' = [chk EXCEPT ![i].pc = "done", ![i].code = 500]
    /\ UNCHANGED <<got, configured, sessions, now, nWrites, wh>>

\* await stripe.checkout.sessions.create(..., { idempotencyKey }): the
\* request reaches the provider n times (n > 1: answers were lost and the SDK
\* retried).  On success the attach update is started and the response is
\* sent without waiting for it.
CheckoutCreateSession(i, ok, n) ==
    /\ chk[i].pc = "session"
    /\ n \in 1..(1 + MaxNetworkRetries)
    /\ ~ok => n = 1
    /\ faults' = (IF ok THEN faults ELSE faults + 1) + (n - 1)
    /\ faults' # faults => faults' <= MaxFaults
    /\ IF ok
       THEN \E d \in Drift :
              LET key == IdempotencyKey(OrderId(chk[i].order), now)
                  s == [key |-> key]
                       @@ NewSession(OrderId(chk[i].order),
                                     LineItemsTotal(chk[i].items, d), chk[i].email)
                  created == Transmitted(sessions, s, n)
                  k == CHOOSE j \in 1..Len(created) : created[j].key = key
              IN  /\ sessions' = created
                  /\ chk' = [chk EXCEPT ![i] =
                        [@ EXCEPT !.pc = "attachRead", !.sess = k, !.sent = n,
                                  !.code = 200,
                                  !.respSession = SessionId(k),
                                  !.respOrder = OrderId(chk[i].order)]]
       ELSE /\ sessions' = sessions
            /\ chk' = [chk EXCEPT ![i].pc = "failRead"]
    /\ UNCHANGED <<got, configured, orders, now, nWrites, wh>>

\* The status and data of the update a checkout request is running.
CheckoutUpdateStatus(i) == IF chk[i].pc \in {"attachRead", "attachWrite"} THEN "pending" ELSE "failed"

\* An attach that records the first session the provider created, whichever
\* order it was created for.
CheckoutUpdatePatch_FirstSession(i) ==
    IF chk[i].pc \in {"attachRead", "attachWrite"}
    THEN Patch(SessionId(1), NoFloat, NoCurrency, NoEmail, "none")
    ELSE Patch(NullId, NoFloat, NoCurrency, NoEmail, "stripe error")

\* A handler that marks the order failed without the provider's message.
CheckoutUpdatePatch_NoMessage(i) ==
    IF chk[i].pc \in {"attachRead", "attachWrite"}
    THEN Patch(SessionId(chk[i].sess), NoFloat, NoCurrency, NoEmail, "none")
    ELSE Patch(NullId, NoFloat, NoCurrency, NoEmail, "none")

CheckoutUpdatePatch(i) ==
    IF chk[i].pc \in {"attachRead", "attachWrite"}
    THEN Patch(SessionId(chk[i].sess), NoFloat, NoCurrency, NoEmail, "none")
    ELSE Patch(NullId, NoFloat, NoCurrency, NoEmail, "stripe error")

\* A route that answers 500 when any of its updates has ended.
CheckoutAfterUpdate_Fails(c) == [c EXCEPT !.pc = "done", !.code = 500]

\* What follows the update: the attach ends silently whatever happened;
\* after the 'failed' update the Stripe error is rethrown and answered 500.
CheckoutAfterUpdate(c) ==
    IF c.pc \in {"attachRead", "attachWrite"}
    THEN [c EXCEPT !.pc = "done"]
    ELSE [c EXCEPT !.pc = "done", !.code = 500]

\* updateOrderStatus, first await: const existingOrder = await getOrderById.
\* A failing read yields null.
CheckoutUpdateRead(i, ok) ==
    /\ chk[i].pc \in {"attachRead", "failRead"}
    /\ ~ok => MayFail
    /\ faults' = IF ok THEN faults ELSE faults + 1
    /\ LET existing == IF ok THEN GetOrderById(OrderId(chk[i].order)) ELSE NoOrder
       IN  chk' = [chk EXCEPT ![i] =
              IF AlreadyPaid(existing, CheckoutUpdateStatus(i))
              THEN CheckoutAfterUpdate(@)
              ELSE [@ EXCEPT !.pc = IF @ = "attachRead" THEN "attachWrite" ELSE "failWrite"]]
    /\ UNCHANGED <<got, configured, orders, sessions, now, nWrites, wh>>

\* updateOrderStatus, second await: the UPDATE.
CheckoutUpdateWrite(i, ok) ==
    /\ chk[i].pc \in {"attachWrite", "failWrite"}
    /\ ~ok => MayFail
    /\ faults' = IF ok THEN faults ELSE faults + 1
    /\ LET id == OrderId(chk[i].order)
           status == CheckoutUpdateStatus(i)
           patch == CheckoutUpdatePatch(i)
       IN  IF ok /\ CanWrite(id, status, patch)
           THEN /\ orders' = Written(id, status, patch)
                /\ nWrites' = nWrites + 1
           ELSE /\ orders' = orders
                /\ nWrites' = nWrites
    /\ chk' = [chk EXCEPT ![i] = CheckoutAfterUpdate(@)]
    /\ UNCHANGED <<got, configured, sessions, now, wh>>

\* ------------------------------------------------------- webhook requests
Completed == "checkout.session.completed"
AsyncFailed == "checkout.session.async_payment_failed"
PaymentFailed == "payment_intent.payment_failed"
PaymentSucceeded == "payment_intent.succeeded"
Unhandled == "customer.created"

\* metadata.orderId of a session this program did not create: absent, or any
\* order id.
ExternalMetadata == {NullId} \cup {OrderId(n) : n \in 1..MaxCheckouts}

\* The signed events the provider can deliver.  An event about a session of
\* this program carries the metadata the session was created with, and the
\* provider reports completion or an asynchronous failure only of a session
\* the customer has completed.  For the two payment_intent kinds and the
\* unhandled kind the handler reads nothing but the type.
SignedEvents ==
    {[kind |-> kd, sid |-> SessionId(k), meta |-> sessions[k].orderId] :
        kd \in {Completed, AsyncFailed},
        k \in {j \in 1..Len(sessions) : sessions[j].status = "complete"}}
    \cup {[kind |-> kd, sid |-> ExternalSession, meta |-> m] :
        kd \in {Completed, AsyncFailed}, m \in ExternalMetadata}
    \cup {[kind |-> PaymentFailed, sid |-> PaymentIntentId(1), meta |-> NullId]}
    \cup {[kind |-> kd, sid |-> NullId, meta |-> NullId] :
        kd \in {PaymentSucceeded, Unhandled}}

\* An event that was not signed with the shared secret: anyone can post one,
\* here a 'payment completed' naming the first order.
ForgedEvent == [kind |-> Completed, sid |-> ExternalSession, meta |-> OrderId(1)]

\* res.json / res.status(code): the handler returns and its locals are gone.
Respond(r, code) == [r EXCEPT !.pc = "done", !.code = code, !.target = NullId]

Logged(r, what) == [r EXCEPT !.log = @ \cup {what}]

\* A handler that goes on to process an event whose signature did not verify.
Rejected_Processed(r) == [r EXCEPT !.pc = "getOrder"]

\* catch (err) { return res.status(400).send(`Webhook Error: ...`) }
Rejected(r) == Respond(r, 400)

\* A handler that answers 404 to an event it has nothing to do for.
Acknowledged_NotFound(r) == Respond(r, 404)

\* A case that only logs (payment_intent.succeeded, default), or an
\* asynchronous failure without metadata.orderId: break, then
\* res.json({ received: true }).
Acknowledged(r) == Respond(r, 200)

\* The request arrives: configuration check, constructEvent, the switch up
\* to the first await.
WebhookReceive(w, sigOk, ev) ==
    /\ wh[w].pc = "idle"
    /\ w > 1 => wh[w - 1].pc # "idle"
    /\ LET r == [wh[w] EXCEPT !.kind = ev.kind, !.sid = ev.sid, !.meta = ev.meta,
                    !.sigOk = sigOk,
                    !.prior = IF configured /\ sigOk /\ ev.kind = Completed /\ IsCreated(ev.sid)
                              THEN {v \in Webhooks : wh[v].pc = "done"} ELSE {},
                    !.n0 = IF configured /\ sigOk /\ ev.kind = Completed /\ IsCreated(ev.sid)
                           THEN nWrites ELSE 0]
       IN  wh' = [wh EXCEPT ![w] =
              IF ~configured THEN Respond(r, 500)
              ELSE IF ~sigOk THEN Rejected(r)
              ELSE IF ev.kind = Completed
                   THEN IF ev.meta # NullId
                        THEN [r EXCEPT !.pc = "getOrder"]
                        ELSE [r EXCEPT !.pc = "findSession"]
              ELSE IF ev.kind = PaymentFailed THEN [r EXCEPT !.pc = "findIntent"]
              ELSE IF ev.kind = AsyncFailed /\ ev.meta # NullId
                   THEN [r EXCEPT !.pc = "updRead", !.target = ev.meta]
              ELSE Acknowledged(r)]
    /\ UNCHANGED <<got, configured, orders, sessions, now, faults, nWrites, chk>>

\* if (existingOrder.stripeSessionId === session.id && existingOrder.status === 'paid')
AlreadyProcessed(existing, sid) ==
    Found(existing) /\ existing.stripeSessionId = sid /\ existing.status = "paid"

\* The handler without its branch for an order paid under another session.
DuplicatePayment_Never(existing) == FALSE

\* if (existingOrder.status === 'paid'), the session being another one
DuplicatePayment(existing) == Found(existing) /\ existing.status = "paid"

\* A handler that answers 500 when its processing throws.
HandlerCaught_Fails(r) == Respond(Logged(r, "error"), 500)

\* catch (error) { logger.error(...) } and the res.json({ received: true })
\* after the switch.
HandlerCaught(r) == Respond(Logged(r, "error"), 200)

\* A handler that acknowledges an unknown session without logging.
OrderNotFound_Silent(r) == Respond(r, 200)

\* logger.error(..., 'Order not found for session'), then the same res.json.
OrderNotFound(r) == Respond(Logged(r, "error"), 200)

\* Remember what a lookup returned.
Saw(r, o) ==
    IF Found(o)
    THEN [r EXCEPT !.existingStatus = o.status, !.existingSid = o.stripeSessionId]
    ELSE [r EXCEPT !.existingStatus = "none", !.existingSid = NullId]

\* checkout.session.completed with metadata.orderId:
\* const existingOrder = await orderService.getOrderById(orderId)
WebhookGetOrder(w) ==
    /\ wh[w].pc = "getOrder"
    /\ \E ok \in BOOLEAN :
        /\ ~ok => MayFail
        /\ faults' = IF ok THEN faults ELSE faults + 1
        /\ LET existing == IF ok THEN GetOrderById(wh[w].meta) ELSE NoOrder
               r == Saw(wh[w], existing)
           IN  wh' = [wh EXCEPT ![w] =
                  IF AlreadyProcessed(existing, r.sid)
                  THEN Respond(r, 200)
                  ELSE IF DuplicatePayment(existing)
                  THEN Respond(Logged(r, "duplicate payment"), 200)
                  ELSE [r EXCEPT !.pc = "updRead", !.target = r.meta]]
    /\ UNCHANGED <<got, configured, orders, sessions, now, nWrites, chk>>

\* checkout.session.completed without metadata.orderId:
\* const order = await orderService.findOrderByStripeSessionId(session.id)
WebhookFindSession(w) ==
    /\ wh[w].pc = "findSession"
    /\ \E ok \in BOOLEAN :
        /\ ~ok => MayFail
        /\ faults' = IF ok THEN faults ELSE faults + 1
        /\ LET order == IF ok THEN FindOrderByStripeSessionId(wh[w].sid) ELSE NoOrder
               r == Saw(wh[w], order)
           IN  wh' = [wh EXCEPT ![w] =
                  IF Found(order)
                  THEN [r EXCEPT !.pc = "updRead", !.target = order.id]
                  ELSE OrderNotFound(r)]
    /\ UNCHANGED <<got, configured, orders, sessions, now, nWrites, chk>>

\* payment_intent.payment_failed:
\* const order = await orderService.findOrderByStripeSessionId(failedPayment.id)
WebhookFindIntent(w) ==
    /\ wh[w].pc = "findIntent"
    /\ \E ok \in BOOLEAN :
        /\ ~ok => MayFail
        /\ faults' = IF ok THEN faults ELSE faults + 1
        /\ LET order == IF ok THEN FindOrderByStripeSessionId(wh[w].sid) ELSE NoOrder
               r == Saw(wh[w], order)
           IN  wh' = [wh EXCEPT ![w] =
                  IF Found(order)
                  THEN [r EXCEPT !.pc = "updRead", !.target = order.id]
                  ELSE Respond(r, 200)]
    /\ UNCHANGED <<got, configured, orders, sessions, now, nWrites, chk>>

\* A handler whose every update marks the order paid.
WebhookUpdateStatus_AlwaysPaid(r) == "paid"

\* The status and data of the update a webhook request is running.
WebhookUpdateStatus(r) == IF r.kind = Completed THEN "paid" ELSE "failed"

\* A handler that marks the order paid without recording the amount.
WebhookUpdatePatch_NoAmount(r, amountPaid) ==
    IF r.kind = Completed /\ r.meta # NullId
    THEN Patch(r.sid, NoFloat, EventCurrency(r.sid), EventEmail(r.sid), "none")
    ELSE IF r.kind = Completed
    THEN Patch(NullId, NoFloat, EventCurrency(r.sid), NoEmail, "none")
    ELSE Patch(NullId, NoFloat, NoCurrency, NoEmail, "payment failed")

\* amountPaid is the double session.amount_total / 100.
WebhookUpdatePatch(r, amountPaid) ==
    IF r.kind = Completed /\ r.meta # NullId
    THEN Patch(r.sid, amountPaid, EventCurrency(r.sid), EventEmail(r.sid), "none")
    ELSE IF r.kind = Completed
    THEN Patch(NullId, amountPaid, EventCurrency(r.sid), NoEmail, "none")
    ELSE Patch(NullId, NoFloat, NoCurrency, NoEmail, "payment failed")

\* updateOrderStatus, first await: const existingOrder = await getOrderById.
\* A failing read yields null; an order already paid is returned as it is.
WebhookUpdateRead(w) ==
    /\ wh[w].pc = "updRead"
    /\ \E ok \in BOOLEAN :
        /\ ~ok => MayFail
        /\ faults' = IF ok THEN faults ELSE faults + 1
        /\ LET existing == IF ok THEN GetOrderById(wh[w].target) ELSE NoOrder
           IN  wh' = [wh EXCEPT ![w] =
                  IF AlreadyPaid(existing, WebhookUpdateStatus(@))
                  THEN Respond(@, 200)
                  ELSE [@ EXCEPT !.pc = "updWrite"]]
    /\ UNCHANGED <<got, configured, orders, sessions, now, nWrites, chk>>

\* updateOrderStatus, second await: the UPDATE.  An error is caught by the
\* handler, logged, and the event is acknowledged all the same.
WebhookUpdateWrite(w) ==
    /\ wh[w].pc = "updWrite"
    /\ \E ok \in BOOLEAN :
        /\ ~ok => MayFail
        /\ faults' = IF ok THEN faults ELSE faults + 1
        /\ \E amountPaid \in Float(EventAmount(wh[w].sid)) :
           LET id == wh[w].target
               status == WebhookUpdateStatus(wh[w])
               patch == WebhookUpdatePatch(wh[w], amountPaid)
           IN  IF ok /\ CanWrite(id, status, patch)
               THEN /\ orders' = Written(id, status, patch)
                    /\ nWrites' = nWrites + 1
                    /\ wh' = [wh EXCEPT ![w] = Respond([@ EXCEPT !.wrote = @ + 1], 200)]
               ELSE /\ orders' = orders
                    /\ nWrites' = nWrites
                    /\ wh' = [wh EXCEPT ![w] = HandlerCaught(@)]
    /\ UNCHANGED <<got, configured, sessions, now, chk>>

\* ------------------------------------------------------ GET /order/:orderId
NoRequest == [req |-> NullId, code |-> 0, id |-> NullId]

\* The values a client can put in the path: order ids, present or not, and
\* session ids.
RequestIds ==
    {OrderId(n) : n \in Checkouts} \cup {SessionId(k) : k \in Checkouts}

\* const order = await orderService.getOrderById(orderId); 404 when null.
GetOrder(id) ==
    /\ LET order == GetOrderById(id)
       IN  got' = IF Found(order)
                  THEN [req |-> id, code |-> 200, id |-> order.id]
                  ELSE [req |-> id, code |-> 404, id |-> NullId]
    /\ UNCHANGED <<configured, orders, sessions, now, faults, nWrites, chk, wh>>

\* orderService.findPendingOrderByItems(items, customerEmail): the answer is
\* kept with the ids and quantities asked for.  A failing query yields null.
FindPendingOrderByItems(items, email, ok) ==
    /\ LET matching == IF ok THEN PendingOrdersByItems(items, email) ELSE {}
       IN  \/ /\ matching = {}
              /\ got' = [req |-> IdQuantity(items), email |-> email, id |-> NullId]
           \/ \E n \in matching :
                 got' = [req |-> IdQuantity(items), email |-> email, id |-> OrderId(n)]
    /\ UNCHANGED <<configured, orders, sessions, now, faults, nWrites, chk, wh>>

\* --------------------------------------------------------- the environment
\* The customer pays on the provider's page.
ProviderSessionCompletes(k) ==
    /\ k \in 1..Len(sessions)
    /\ sessions[k].status = "open"
    /\ sessions' = [sessions EXCEPT ![k].status = "complete"]
    /\ UNCHANGED <<got, configured, orders, now, faults, nWrites, chk, wh>>

\* The instants at which the clock is read: within the five-minute window
\* of an order created at 0, and at its end.
Instants == {0, FiveMinutes - 1, FiveMinutes}

Tick ==
    /\ \E t \in Instants : t > now /\ now' = t
    /\ UNCHANGED <<got, configured, orders, sessions, faults, nWrites, chk, wh>>

Init ==
    /\ configured \in BOOLEAN
    /\ orders = << >>
    /\ sessions = << >>
    /\ now = 0
    /\ faults = 0
    /\ nWrites = 0
    /\ chk = [i \in Checkouts |-> IdleCheckout]
    /\ wh = [w \in Webhooks |-> IdleWebhook]
    /\ got = NoRequest

\* Every step of a checkout request other than its arrival; Outcomes says
\* whether its store and provider calls may fail (a retried transmission
\* follows a failed one).
CheckoutRuns(Outcomes) ==
    \/ \E i \in Checkouts, ok \in Outcomes : CheckoutLookup(i, ok)
    \/ \E i \in Checkouts, ok \in Outcomes : CheckoutRetrieve(i, ok)
    \/ \E i \in Checkouts, ok \in Outcomes : CheckoutCreateOrder(i, ok)
    \/ \E i \in Checkouts, ok \in Outcomes, n \in 1..(1 + MaxNetworkRetries) :
          (FALSE \notin Outcomes => n = 1) /\ CheckoutCreateSession(i, ok, n)
    \/ \E i \in Checkouts, ok \in Outcomes : CheckoutUpdateRead(i, ok)
    \/ \E i \in Checkouts, ok \in Outcomes : CheckoutUpdateWrite(i, ok)
    \/ \E k \in Checkouts : ProviderSessionCompletes(k)

WebhookStep ==
    \/ \E w \in Webhooks, ev \in SignedEvents : WebhookReceive(w, TRUE, ev)
    \/ \E w \in Webhooks : WebhookReceive(w, FALSE, ForgedEvent)
    \/ \E w \in Webhooks : WebhookGetOrder(w)
    \/ \E w \in Webhooks : WebhookFindSession(w)
    \/ \E w \in Webhooks : WebhookFindIntent(w)
    \/ \E w \in Webhooks : WebhookUpdateRead(w)
    \/ \E w \in Webhooks : WebhookUpdateWrite(w)

\* No checkout request is being handled (its detached attach included).
NoCheckoutInFlight == \A j \in Checkouts : chk[j].pc \in {"idle", "done"}

\* Reconciliation: webhook requests race each other and the checkout request
\* in flight, and their store calls may fail; checkout requests arrive one
\* after the other, all within one five-minute window, and their calls
\* succeed.
Next ==
    \/ \E i \in Checkouts, items \in Carts, email \in Emails :
          NoCheckoutInFlight /\ CheckoutStart(i, items, email)
    \/ CheckoutRuns({TRUE})
    \/ WebhookStep

Spec == Init /\ [][Next]_vars

\* Checkout: checkout requests race each other while the clock advances and
\* their store and provider calls may fail; no webhook is delivered.
NextCheckout ==
    \/ \E i \in Checkouts, items \in Carts, email \in Emails : CheckoutStart(i, items, email)
    \/ CheckoutRuns(BOOLEAN)
    \/ Tick

SpecCheckout == Init /\ [][NextCheckout]_vars

\* Orders: one checkout request without email, for any of the priced carts
\* and of the carts the route must refuse,
\* its calls succeeding, and GET /order/:orderId requests at any moment.
NextOrders ==
    \/ \E items \in PricedCarts \cup BadCarts : CheckoutStart(1, items, NoEmail)
    \/ CheckoutLookup(1, TRUE)
    \/ CheckoutCreateOrder(1, TRUE)
    \/ CheckoutCreateSession(1, TRUE, 1)
    \/ CheckoutUpdateRead(1, TRUE)
    \/ CheckoutUpdateWrite(1, TRUE)
    \/ \E id \in RequestIds : GetOrder(id)

SpecOrders == Init /\ [][NextOrders]_vars

\* Store lookups: one checkout request for any of the plain carts, its
\* calls possibly failing, the clock advancing, and findPendingOrderByItems
\* called at any moment for any of the plain carts.
NextFind ==
    \/ \E items \in PlainCarts, email \in Emails : CheckoutStart(1, items, email)
    \/ \E ok \in BOOLEAN : CheckoutLookup(1, ok)
    \/ \E ok \in BOOLEAN : CheckoutCreateOrder(1, ok)
    \/ \E ok \in BOOLEAN : CheckoutCreateSession(1, ok, 1)
    \/ \E ok \in BOOLEAN : CheckoutUpdateRead(1, ok)
    \/ \E ok \in BOOLEAN : CheckoutUpdateWrite(1, ok)
    \/ Tick
    \/ \E items \in PlainCarts, email \in Emails, ok \in BOOLEAN :
          FindPendingOrderByItems(items, email, ok)

SpecFind == Init /\ [][NextFind]_vars

\* ================================================================ claims
Paid(n) == orders[n].status = "paid"

Done(w) == wh[w].pc = "done"

\* An authenticated 'payment completed' event was dispatched by request w.
HandledCompleted(w) ==
    configured /\ wh[w].sigOk /\ wh[w].kind = Completed

\* Requests v and w were sent the identical 'payment completed' event, about
\* a session this program created, and each handler read the order pending.
SameCompletedEvent(v, w) ==
    /\ v # w
    /\ HandledCompleted(v) /\ HandledCompleted(w)
    /\ wh[v].sid = wh[w].sid /\ wh[v].meta = wh[w].meta
    /\ IsCreated(wh[v].sid)

\* Every update of the store since request v arrived was made by v or w, and
\* no store call has failed.
OnlyWriters(v, w) ==
    /\ faults = 0
    /\ nWrites - wh[v].n0 = wh[v].wrote + wh[w].wrote

\* The order a session of this program was created for.
OrderOf(sid) == CHOOSE n \in 1..Len(orders) : OrderId(n) = SessionOf(sid).orderId

\* C1 (as claimed): once an order's stored status is 'paid', no step sets it
\* to 'failed' or to 'pending'.
C1_PaidIsFinal ==
    [][\A n \in 1..Len(orders) :
          Paid(n) => orders'[n].status \notin {"failed", "pending"}]_vars

\* C2 (as claimed): once an order is stored as 'paid' with stripeSessionId s,
\* no step changes its stored stripeSessionId.
C2_PaidSessionIsFinal ==
    [][\A n \in 1..Len(orders) :
          (Paid(n) /\ orders[n].stripeSessionId # NullId)
              => orders'[n].stripeSessionId = orders[n].stripeSessionId]_vars

\* C3: the identical 'payment completed' event handled twice, the first
\* request answered before the second arrives, for an order the first handler
\* reads as pending, with no other writer and no failing store call: the first
\* request writes the transition to 'paid', the second request writes
\* nothing, and both are answered 200.
C3_SecondDeliveryIsNoOp ==
    \A v, w \in Webhooks :
        (/\ SameCompletedEvent(v, w)
         /\ Done(v) /\ Done(w)
         /\ v \in wh[w].prior
         /\ wh[v].existingStatus = "pending"
         /\ OnlyWriters(v, w))
        => /\ wh[v].wrote = 1
           /\ wh[w].wrote = 0
           /\ Paid(OrderOf(wh[v].sid))
           /\ orders[OrderOf(wh[v].sid)].stripeSessionId = wh[v].sid
           /\ wh[v].code = 200 /\ wh[w].code = 200

C3_Witness ==
    \E v, w \in Webhooks :
        /\ SameCompletedEvent(v, w)
        /\ Done(v) /\ Done(w)
        /\ v \in wh[w].prior
        /\ wh[v].existingStatus = "pending"
        /\ OnlyWriters(v, w)
        /\ wh[v].wrote = 1 /\ wh[w].wrote = 0
        /\ wh[w].existingStatus = "paid"

\* C4 (as claimed): two deliveries of the same 'payment completed' event for
\* a pending order handled concurrently (neither answered when the other
\* arrives), with no other writer: at most one of them writes the transition
\* to 'paid'.
C4_AtMostOneWrites ==
    \A v, w \in Webhooks :
        (/\ SameCompletedEvent(v, w)
         /\ v \notin wh[w].prior /\ w \notin wh[v].prior
         /\ wh[v].n0 <= wh[w].n0
         /\ wh[v].existingStatus = "pending" /\ wh[w].existingStatus = "pending"
         /\ OnlyWriters(v, w))
        => wh[v].wrote + wh[w].wrote <= 1

\* C5: a 'payment completed' event naming (metadata.orderId) an order that
\* the handler reads as paid under another session: the handler writes
\* nothing, logs the duplicate-payment warning and answers 200.
C5_PaidUnderOtherSession ==
    \A w \in Webhooks :
        (/\ HandledCompleted(w) /\ Done(w)
         /\ wh[w].meta # NullId
         /\ wh[w].existingStatus = "paid"
         /\ wh[w].existingSid # wh[w].sid)
        => /\ wh[w].wrote = 0
           /\ "duplicate payment" \in wh[w].log
           /\ wh[w].code = 200

C5_Witness ==
    \E w \in Webhooks :
        /\ HandledCompleted(w) /\ Done(w)
        /\ wh[w].meta # NullId
        /\ wh[w].existingStatus = "paid"
        /\ wh[w].existingSid # NullId
        /\ wh[w].existingSid # wh[w].sid
        /\ "duplicate payment" \in wh[w].log

\* C6 (as claimed): every webhook request is answered 200, except 400 when
\* the signature does not verify.
C6_OnlySignatureFails ==
    \A w \in Webhooks :
        Done(w) => wh[w].code = IF wh[w].sigOk THEN 200 ELSE 400

\* C6 (amended): a webhook request is answered 500 when Stripe or the webhook
\* secret is not configured, else 400 when the signature does not verify,
\* else 200 whatever the processing met.
C6_AckUnlessUnsignedOrUnconfigured ==
    \A w \in Webhooks :
        Done(w) => wh[w].code = IF ~configured THEN 500
                                ELSE IF wh[w].sigOk THEN 200 ELSE 400

C6_Witness ==
    \E w \in Webhooks :
        /\ Done(w) /\ configured /\ wh[w].sigOk
        /\ faults > 0
        /\ "error" \in wh[w].log
        /\ wh[w].code = 200

\* The order a 'payment completed' event refers to is not in the store: no
\* row has the id in metadata.orderId or, without metadata.orderId, the
\* lookup by session id found none.
RefersToMissingOrder(w) ==
    /\ HandledCompleted(w)
    /\ IF wh[w].meta # NullId
       THEN \A n \in 1..Len(orders) : OrderId(n) # wh[w].meta
       ELSE wh[w].existingStatus \in {"unread", "none"}

\* C7: no step of a request handling a 'payment completed' event that refers
\* to a missing order changes the orders table, and the request ends with an
\* error logged and the answer 200.
C7_MissingOrderIsAcknowledged ==
    [][\A w \in Webhooks :
          (wh'[w] # wh[w] /\ RefersToMissingOrder(w)')
              => /\ orders' = orders
                 /\ Done(w)' => ("error" \in wh'[w].log /\ wh'[w].code = 200)]_vars

C7_Witness ==
    \E v, w \in Webhooks :
        /\ RefersToMissingOrder(v) /\ Done(v) /\ wh[v].meta # NullId
        /\ RefersToMissingOrder(w) /\ Done(w) /\ wh[w].meta = NullId
        /\ "error" \in wh[v].log /\ "error" \in wh[w].log
        /\ faults = 0

\* C8 (as claimed): of two checkout calls with the same cart and customer
\* email, the second arriving after the first was answered with a new
\* session, all within five minutes, the session still open and no call
\* failing: the second is answered with the first's sessionId and orderId and
\* creates neither an order nor a session.
C8_SecondCallReusesSession ==
    \A i, j \in Checkouts :
        (/\ i # j
         /\ i \in chk[j].prior
         /\ chk[i].sess # 0 /\ chk[i].code = 200
         /\ chk[j].code # 0
         /\ chk[j].items = chk[i].items
         /\ chk[j].email = chk[i].email /\ chk[i].email # NoEmail
         /\ sessions[chk[i].sess].status = "open"
         /\ now < FiveMinutes
         /\ faults = 0)
        => /\ chk[j].respSession = chk[i].respSession
           /\ chk[j].respOrder = chk[i].respOrder
           /\ chk[j].order = 0 /\ chk[j].sess = 0

\* The order of request i is stored with the session created for it.
Linked(i) ==
    /\ chk[i].order # 0 /\ chk[i].sess # 0
    /\ orders[chk[i].order].stripeSessionId = SessionId(chk[i].sess)

\* C9 (as claimed): two checkout requests for the same cart and customer
\* that both passed the duplicate lookup before either created its order do
\* not end as two orders each linked to its own session.
C9_NoTwoOrdersForOneCart ==
    \A i, j \in Checkouts :
        (/\ i # j /\ j \in chk[i].rivals
         /\ chk[i].email # NoEmail
         /\ chk[i].pc = "done" /\ chk[j].pc = "done")
        => ~(Linked(i) /\ Linked(j))

\* C10: no two distinct orders hold the same non-null stripeSessionId.
C10_SessionIdUnique ==
    \A n, m \in 1..Len(orders) :
        (n # m /\ orders[n].stripeSessionId # NullId)
            => orders[n].stripeSessionId # orders[m].stripeSessionId

\* The unique index has rejected an update: a request sent the external
\* session for one order while another order held it, and no call failed.
C10_Witness ==
    \E w \in Webhooks, n, m \in 1..Len(orders) :
        /\ n # m
        /\ HandledCompleted(w) /\ Done(w)
        /\ wh[w].meta = OrderId(m)
        /\ orders[n].stripeSessionId = wh[w].sid
        /\ orders[m].stripeSessionId # wh[w].sid
        /\ "error" \in wh[w].log
        /\ faults = 0

\* Request w is about to run the UPDATE that attaches its session id to an
\* existing order while a different order holds that session id.
AttachesHeldSession(w) ==
    /\ wh[w].pc = "updWrite"
    /\ wh[w].kind = Completed /\ wh[w].meta # NullId
    /\ \E a \in 1..Len(orders) : OrderId(a) = wh[w].target
    /\ \E b \in 1..Len(orders) :
          OrderId(b) # wh[w].target /\ orders[b].stripeSessionId = wh[w].sid

\* C11: an update that attaches to an order a stripeSessionId held by a
\* different order fails (the error reaches the caller, which logs it) and
\* leaves every row of the orders table as it was.
C11_DuplicateSessionFails ==
    [][\A w \in Webhooks :
          (AttachesHeldSession(w) /\ wh'[w] # wh[w])
              => /\ orders' = orders
                 /\ "error" \in wh'[w].log
                 /\ wh'[w].wrote = wh[w].wrote]_vars

C11_Witness ==
    \E w \in Webhooks, a, b \in 1..Len(orders) :
        /\ a # b
        /\ HandledCompleted(w) /\ Done(w)
        /\ wh[w].meta = OrderId(a)
        /\ wh[w].existingStatus = "pending"
        /\ orders[b].stripeSessionId = wh[w].sid
        /\ orders[a].status = "pending"
        /\ orders[a].stripeSessionId # wh[w].sid
        /\ orders[a].amountPaid = NoAmount
        /\ "error" \in wh[w].log /\ wh[w].wrote = 0
        /\ faults = 0

\* C12 (as claimed): when the 'payment completed' event of a checkout's
\* session has been handled (and has written) before the checkout's attach
\* update is applied, no other webhook request and no failing call being
\* involved, then once the attach has finished the order is 'paid' and holds
\* that session's id.
C12_PaidAfterLateAttach ==
    [][\A i \in Checkouts, w \in Webhooks :
          (/\ chk[i].pc \in {"attachRead", "attachWrite"} /\ chk'[i].pc = "done"
           /\ HandledCompleted(w) /\ Done(w)
           /\ wh[w].sid = SessionId(chk[i].sess)
           /\ wh[w].wrote = 1
           /\ \A v \in Webhooks \ {w} : wh[v].pc = "idle"
           /\ faults = 0)
          => /\ orders'[chk[i].order].status = "paid"
             /\ orders'[chk[i].order].stripeSessionId = SessionId(chk[i].sess)]_vars

\* C13 (as claimed): once an order's stored status is 'failed', no step sets
\* it to 'paid' or to 'pending'.
C13_FailedIsFinal ==
    [][\A n \in 1..Len(orders) :
          orders[n].status = "failed"
              => orders'[n].status \notin {"paid", "pending"}]_vars

\* The provider's session creation failed for request i, after its order
\* was created, and the request has been answered.
SessionCreationFailed(i) ==
    chk[i].pc = "done" /\ chk[i].order # 0 /\ chk[i].sess = 0

\* C14: when the provider's session creation raises an error, and no other
\* call fails, the order created for the request ends 'failed' with an error
\* message, and the client is answered 500 without a sessionId.
C14_ProviderFailureMarksFailed ==
    \A i \in Checkouts :
        (SessionCreationFailed(i) /\ faults = 1)
        => /\ orders[chk[i].order].status = "failed"
           /\ orders[chk[i].order].errorMessage # "none"
           /\ chk[i].code = 500
           /\ chk[i].respSession = NullId

C14_Witness ==
    \E i \in Checkouts :
        /\ SessionCreationFailed(i) /\ faults = 1
        /\ orders[chk[i].order].status = "failed"
        /\ orders[chk[i].order].errorMessage = "stripe error"
        /\ orders[chk[i].order].stripeSessionId = NullId
        /\ chk[i].code = 500

\* C15: a request reaches the provider's session creation only by the step
\* that stores its order, with status 'pending'; the order of a request at
\* the session creation is in the store, and the session created carries
\* that order's id in metadata.orderId.
C15_OrderBeforeSession ==
    [][\A i \in Checkouts :
          /\ (chk[i].pc # "session" /\ chk'[i].pc = "session")
                => /\ Len(orders') = Len(orders) + 1
                   /\ chk'[i].order = Len(orders')
                   /\ orders'[Len(orders')].status = "pending"
          /\ (chk[i].pc = "session" /\ chk'[i].pc # "session")
                => /\ chk[i].order \in 1..Len(orders)
                   /\ Len(sessions') > Len(sessions)
                        => sessions'[Len(sessions')].orderId = OrderId(chk[i].order)]_vars

\* One request holds a session created for its stored order, another was
\* refused by the provider after its order was stored.
C15_Witness ==
    \E i, j \in Checkouts :
        /\ chk[i].sess # 0
        /\ sessions[chk[i].sess].orderId = OrderId(chk[i].order)
        /\ chk[i].order \in 1..Len(orders)
        /\ SessionCreationFailed(j)
        /\ chk[j].order \in 1..Len(orders) /\ chk[j].order # chk[i].order

\* C16: for a checkout request with a valid cart and no customer email, the
\* step that stores the order stores it 'pending' with totalAmount the cart
\* total; the step that creates the session puts the order's id in
\* metadata.orderId; and the step by which an authenticated 'payment
\* completed' event for that session writes the order leaves it 'paid' with
\* amountPaid the event's amount_total and the event's currency.
C16_HappyPath ==
    [][\A i \in Checkouts :
          (chk[i].email = NoEmail /\ ValidItems(chk[i].items))
          => /\ (chk[i].pc = "create" /\ chk'[i].pc = "session")
                   => /\ orders'[chk'[i].order].status = "pending"
                      /\ orders'[chk'[i].order].totalAmount = SumCents(chk[i].items)
             /\ (chk[i].pc = "session" /\ chk'[i].sess # 0)
                   => sessions'[chk'[i].sess].orderId = OrderId(chk[i].order)
             /\ \A w \in Webhooks :
                   (/\ HandledCompleted(w)
                    /\ chk[i].sess # 0 /\ wh[w].sid = SessionId(chk[i].sess)
                    /\ wh'[w].wrote = wh[w].wrote + 1)
                   => /\ orders'[chk[i].order].status = "paid"
                      /\ orders'[chk[i].order].amountPaid = EventAmount(wh[w].sid)
                      /\ orders'[chk[i].order].currency = EventCurrency(wh[w].sid)]_vars

C16_Witness ==
    \E i \in Checkouts, w \in Webhooks :
        /\ chk[i].email = NoEmail /\ chk[i].items = CartA
        /\ chk[i].sess # 0
        /\ sessions[chk[i].sess].orderId = OrderId(chk[i].order)
        /\ HandledCompleted(w) /\ Done(w) /\ wh[w].wrote = 1
        /\ wh[w].sid = SessionId(chk[i].sess)
        /\ orders[chk[i].order].status = "paid"
        /\ orders[chk[i].order].totalAmount = 9998
        /\ orders[chk[i].order].amountPaid = 9998
        /\ orders[chk[i].order].currency = "usd"

C18_ItemsAndTotalFixed ==
    [][\A n \in 1..Len(orders) :
          /\ orders'[n].items = orders[n].items
          /\ orders'[n].totalAmount = orders[n].totalAmount]_vars

\* An order updated by its attach and then by a webhook.
C18_Witness ==
    \E n \in 1..Len(orders) :
        /\ orders[n].status = "paid"
        /\ orders[n].stripeSessionId # NullId
        /\ orders[n].amountPaid # NoAmount
        /\ nWrites >= 2
        /\ orders[n].items = CartA
        /\ orders[n].totalAmount = SumCents(CartA)

C20_UnsignedIsRejected ==
    [][\A w \in Webhooks :
          (configured /\ ~wh'[w].sigOk /\ wh'[w] # wh[w])
              => /\ orders' = orders
                 /\ wh'[w].pc = "done" /\ wh'[w].code = 400
                 /\ wh'[w].existingStatus = "unread"
                 /\ wh'[w].wrote = 0]_vars

\* A forged 'payment completed' event naming a pending order was rejected.
C20_Witness ==
    \E w \in Webhooks :
        /\ configured /\ ~wh[w].sigOk /\ Done(w)
        /\ wh[w].code = 400
        /\ wh[w].meta = OrderId(1)
        /\ Len(orders) >= 1 /\ orders[1].status = "pending"

\* The order a payment-failed event is about: the one its metadata.orderId
\* names or, for a failed payment intent, the one whose checkout session the
\* intent pays (PaymentIntentId(k) is the intent of SessionId(k)).
FailedOrder(r) ==
    IF r.kind = AsyncFailed THEN r.meta
    ELSE IF \E k \in 1..Len(sessions) : r.sid = PaymentIntentId(k)
    THEN sessions[CHOOSE k \in 1..Len(sessions) : r.sid = PaymentIntentId(k)].orderId
    ELSE NullId

\* C21 (as claimed): when the handling of an authenticated payment-failed
\* event ends, no store call having failed, an order the event identifies
\* that was still pending is 'failed' with an error message; when the event
\* identifies no order the store is unchanged; the answer is 200.
C21_PaymentFailedMarksFailed ==
    [][\A w \in Webhooks :
          (/\ configured /\ wh'[w].sigOk /\ faults' = 0
           /\ wh'[w].kind \in {PaymentFailed, AsyncFailed}
           /\ wh[w].pc # "done" /\ wh'[w].pc = "done")
              => /\ wh'[w].code = 200
                 /\ \A n \in 1..Len(orders) :
                       (OrderId(n) = FailedOrder(wh'[w]) /\ orders[n].status = "pending")
                           => /\ orders'[n].status = "failed"
                              /\ orders'[n].errorMessage # "none"
                 /\ (\A n \in 1..Len(orders) : OrderId(n) # FailedOrder(wh'[w]))
                       => orders' = orders]_vars

\* C22: a step sets an order's status to 'paid' only as the UPDATE of a
\* webhook request handling a signature-verified 'payment completed' event
\* that resolved to that order, by its metadata.orderId or, without one, by
\* the session id the order held; an order is created 'pending', and no step
\* of a checkout request or of a payment-failed event makes an order paid.
C22_PaidOnlyByCompletedEvent ==
    [][/\ \A n \in 1..Len(orders) :
            (~Paid(n) /\ orders'[n].status = "paid")
                => \E w \in Webhooks :
                      /\ HandledCompleted(w)
                      /\ wh[w].pc = "updWrite" /\ wh'[w].wrote = wh[w].wrote + 1
                      /\ wh[w].target = OrderId(n)
                      /\ \/ wh[w].meta = OrderId(n)
                         \/ wh[w].meta = NullId /\ wh[w].existingSid = wh[w].sid
                      /\ chk' = chk
       /\ \A n \in (Len(orders) + 1)..Len(orders') : orders'[n].status = "pending"
       /\ \A w \in Webhooks :
            (wh'[w].wrote # wh[w].wrote /\ wh[w].kind # Completed)
                => orders'[CHOOSE n \in 1..Len(orders) : OrderId(n) = wh[w].target].status
                      = "failed"]_vars

\* An order paid by an event about a session of another creator that named
\* it, and an order of a second checkout created pending after it.
C22_Witness ==
    \E w \in Webhooks :
        /\ HandledCompleted(w) /\ Done(w) /\ wh[w].wrote = 1
        /\ wh[w].sid = ExternalSession /\ wh[w].meta = OrderId(1)
        /\ Len(orders) = 2
        /\ orders[1].status = "paid" /\ orders[1].stripeSessionId = ExternalSession
        /\ orders[2].status = "pending"

\* The attach of request i has ended without recording its session.
AttachFailed(i) ==
    /\ chk[i].pc = "done" /\ chk[i].sess # 0
    /\ orders[chk[i].order].stripeSessionId # SessionId(chk[i].sess)

\* C23: from the moment the provider has created the session of a checkout
\* request, the request's answer is 200 with that session's id and the new
\* order's id, while the attach is pending, after it succeeded and after it
\* failed; a failed attach leaves the order pending with no stripeSessionId,
\* and once the attach has ended the request takes no further step.
C23_SuccessWhateverTheAttach ==
    [][\A i \in Checkouts :
          /\ chk'[i].sess # 0
                => /\ chk'[i].code = 200
                   /\ chk'[i].respSession = SessionId(chk'[i].sess)
                   /\ chk'[i].respOrder = OrderId(chk'[i].order)
                   /\ sessions'[chk'[i].sess].orderId = chk'[i].respOrder
          /\ AttachFailed(i)'
                => /\ orders'[chk'[i].order].status = "pending"
                   /\ orders'[chk'[i].order].stripeSessionId = NullId
          /\ (chk[i].pc = "done" /\ chk[i].sess # 0) => chk'[i] = chk[i]]_vars

\* A request answered with its session whose attach UPDATE failed.
C23_Witness ==
    \E i \in Checkouts :
        /\ AttachFailed(i) /\ faults = 1
        /\ chk[i].code = 200 /\ chk[i].respSession = SessionId(chk[i].sess)
        /\ orders[chk[i].order].status = "pending"
        /\ orders[chk[i].order].stripeSessionId = NullId

\* An item with its four fields: a non-empty id and name, a price, and a
\* quantity other than 0.
WellFormed(item) ==
    /\ {"id", "name", "price", "quantity"} \subseteq DOMAIN item
    /\ item.id # "" /\ item.name # "" /\ item.quantity # 0

\* The cart is empty, has an item that is not well formed, or has a total
\* of zero or less.
InvalidCart(items) ==
    IF items = << >> \/ \E k \in 1..Len(items) : ~WellFormed(items[k])
    THEN TRUE
    ELSE SumCents(items) <= 0

\* C24: with the provider configured, the step that receives a checkout
\* request whose cart is invalid answers 400 and ends the request: no order
\* is created, no session is retrieved or created, and nothing is looked up;
\* a request with a valid cart is not answered 400.
C24_InvalidCartIsRejected ==
    [][\A i \in Checkouts :
          (configured /\ chk[i].pc = "idle" /\ chk'[i].pc # "idle")
              => IF InvalidCart(chk'[i].items)
                 THEN /\ chk'[i].pc = "done" /\ chk'[i].code = 400
                      /\ chk'[i].order = 0 /\ chk'[i].sess = 0
                      /\ chk'[i].found = NullId
                      /\ orders' = orders /\ sessions' = sessions
                 ELSE chk'[i].pc = "lookup" /\ chk'[i].code = 0]_vars

\* A cart whose second item has no quantity was refused, and nothing was
\* stored or created for it.
C24_Witness ==
    \E i \in Checkouts :
        /\ configured /\ chk[i].pc = "done" /\ chk[i].code = 400
        /\ Len(chk[i].items) = 2
        /\ WellFormed(chk[i].items[1]) /\ ~WellFormed(chk[i].items[2])
        /\ orders = << >> /\ sessions = << >>

\* How many items of a cart have the id and quantity of pair p.
PairCount(items, p) ==
    Cardinality({k \in 1..Len(items) : items[k].id = p.id /\ items[k].quantity = p.quantity})

\* Two carts hold the same multiset of (item id, quantity) pairs.
SameCart(a, b) ==
    /\ Len(a) = Len(b)
    /\ \A k \in 1..Len(a) : PairCount(a, IdQuantity(a)[k]) = PairCount(b, IdQuantity(a)[k])

\* C25: the duplicate lookup of a checkout request goes on to retrieve a
\* session only for an order that is pending, has the request's cart and
\* customer email, was created less than five minutes ago and holds a
\* stripeSessionId; the request is answered with that order and session only
\* when the retrieve succeeds and reports the session 'open'; in every other
\* case the request goes on to create an order, whose creation (when the
\* store call succeeds) adds a new pending order for the cart and customer
\* and is followed by the request for a new provider session naming it.
C25_ReuseOnlyOpenRecentPending ==
    [][\A i \in Checkouts :
          /\ (chk[i].pc = "lookup" /\ chk'[i] # chk[i])
                => IF chk'[i].pc = "retrieve"
                   THEN \E n \in 1..Len(orders) :
                          /\ chk'[i].found = OrderId(n)
                          /\ chk'[i].foundSid = orders[n].stripeSessionId
                          /\ orders[n].stripeSessionId # NullId
                          /\ orders[n].status = "pending"
                          /\ SameCart(orders[n].items, chk[i].items)
                          /\ chk[i].email # NoEmail
                          /\ orders[n].customerEmail = chk[i].email
                          /\ orders[n].createdAt > now - FiveMinutes
                   ELSE chk'[i].pc = "create"
          /\ (chk[i].pc = "retrieve" /\ chk'[i] # chk[i])
                => IF chk'[i].pc = "done"
                   THEN /\ chk'[i].code = 200 /\ chk'[i].order = 0 /\ chk'[i].sess = 0
                        /\ chk'[i].respOrder = chk[i].found
                        /\ chk'[i].respSession = chk[i].foundSid
                        /\ faults' = faults
                        /\ RetrieveStatus(chk[i].foundSid) = "open"
                        /\ orders' = orders /\ sessions' = sessions
                   ELSE chk'[i].pc = "create"
          /\ (chk'[i].code = 200 /\ chk[i].code # 200)
                => chk[i].pc \in {"retrieve", "session"}
          /\ (chk[i].pc = "create" /\ chk'[i] # chk[i] /\ faults' = faults)
                => /\ Len(orders') = Len(orders) + 1
                   /\ orders'[Len(orders')].status = "pending"
                   /\ orders'[Len(orders')].items = chk[i].items
                   /\ orders'[Len(orders')].customerEmail = chk[i].email
                   /\ chk'[i].order = Len(orders') /\ chk'[i].pc = "session"
          /\ (chk[i].pc = "session" /\ chk'[i] # chk[i] /\ faults' = faults)
                => /\ Len(sessions') = Len(sessions) + 1
                   /\ sessions'[Len(sessions')].orderId = OrderId(chk[i].order)]_vars

\* Within the window a second request was answered with the first order and
\* its open session, and no second order exists.
C25_Witness ==
    \E i \in Checkouts :
        /\ chk[i].pc = "done" /\ chk[i].code = 200 /\ chk[i].sess = 0
        /\ chk[i].respOrder = OrderId(1) /\ chk[i].respSession = orders[1].stripeSessionId
        /\ now = FiveMinutes - 1
        /\ Len(orders) = 1 /\ orders[1].status = "pending"
        /\ sessions[1].status = "open"

\* The provider's sessions whose metadata.orderId is id.
SessionsFor(id) == {k \in 1..Len(sessions) : sessions[k].orderId = id}

\* C26: the provider never holds two checkout sessions with the same
\* metadata.orderId, however often the session-creation request of a
\* checkout was transmitted, and a request that was answered with a session
\* has exactly one session for its order.
C26_OneSessionPerOrder ==
    /\ \A n \in 1..Len(orders) : Cardinality(SessionsFor(OrderId(n))) <= 1
    /\ \A i \in Checkouts :
          chk[i].sess # 0 => SessionsFor(OrderId(chk[i].order)) = {chk[i].sess}

\* A session-creation request that reached the provider twice, next to the
\* session of another checkout request.
C26_Witness ==
    \E i \in Checkouts :
        /\ chk[i].sent = 2
        /\ SessionsFor(OrderId(chk[i].order)) = {chk[i].sess}
        /\ Len(sessions) = 2 /\ Len(orders) = 2

\* C27 (as claimed): findPendingOrderByItems answers with an order only if
\* that order is pending, was created within the last five minutes and has
\* the multiset of (item id, quantity) pairs asked for, and answers not
\* found when no order is all three.
C27_FindsOnlyTheSameCart ==
    [][got' # got
          => LET Matches(n) ==
                    /\ orders[n].status = "pending"
                    /\ orders[n].createdAt >= now - FiveMinutes
                    /\ SameCart(orders[n].items, got'.req)
             IN  IF \E n \in 1..Len(orders) : Matches(n)
                 THEN got'.id # NullId
                        => \E n \in 1..Len(orders) : OrderId(n) = got'.id /\ Matches(n)
                 ELSE got'.id = NullId]_vars

\* C28: an authenticated event that is neither 'payment completed' nor a
\* payment failure (payment_intent.succeeded, or a kind the handler does not
\* know) is answered 200 in the step that receives it: the handler looks up
\* no order and the order store is unchanged.
C28_OtherEventsChangeNothing ==
    [][\A w \in Webhooks :
          (/\ configured /\ wh'[w].sigOk /\ wh'[w] # wh[w]
           /\ wh'[w].kind \in {PaymentSucceeded, Unhandled})
              => /\ wh[w].pc = "idle"
                 /\ wh'[w].pc = "done" /\ wh'[w].code = 200
                 /\ wh'[w].existingStatus = "unread" /\ wh'[w].wrote = 0
                 /\ orders' = orders]_vars

\* payment_intent.succeeded was acknowledged while the order whose session
\* the customer has paid is still pending.
C28_Witness ==
    \E w \in Webhooks, i \in Checkouts :
        /\ configured /\ wh[w].sigOk /\ Done(w) /\ wh[w].code = 200
        /\ wh[w].kind = PaymentSucceeded
        /\ chk[i].sess # 0 /\ sessions[chk[i].sess].status = "complete"
        /\ orders[chk[i].order].status = "pending"

\* C29: an order whose stored status is 'paid' has a stripeSessionId and an
\* amount paid; the update that makes an order paid writes the amount of its
\* event, and the session of its event unless the order was found by the
\* session id it already held.
C29_PaidHasSessionAndAmount ==
    [][\A n \in 1..Len(orders) :
          /\ orders'[n].status = "paid"
                => /\ orders'[n].stripeSessionId # NullId
                   /\ orders'[n].amountPaid # NoAmount
          /\ (~Paid(n) /\ orders'[n].status = "paid")
                => \E w \in Webhooks :
                      /\ wh[w].pc = "updWrite" /\ wh[w].target = OrderId(n)
                      /\ orders'[n].amountPaid = EventAmount(wh[w].sid)
                      /\ IF wh[w].meta # NullId
                         THEN orders'[n].stripeSessionId = wh[w].sid
                         ELSE /\ orders'[n].stripeSessionId = orders[n].stripeSessionId
                              /\ wh[w].existingSid = wh[w].sid]_vars

\* An order paid by an event that named it before the attach of its
\* checkout had recorded any session on it.
C29_Witness ==
    \E n \in 1..Len(orders), i \in Checkouts :
        /\ chk[i].order = n /\ chk[i].pc \in {"attachRead", "attachWrite"}
        /\ orders[n].status = "paid"
        /\ orders[n].stripeSessionId = ExternalSession
        /\ orders[n].amountPaid = SumCents(CartA)

\* C30: a session this program created is held only by the order named in
\* its metadata.orderId; and a step that records a session id on an order is
\* either the attach of the checkout request that created that session for
\* that order, or the update of a 'payment completed' event about that
\* session whose metadata.orderId is that order's id.
C30_SessionBelongsToItsOrder ==
    [][\A n \in 1..Len(orders') :
          LET s == orders'[n].stripeSessionId
              old == IF n <= Len(orders) THEN orders[n].stripeSessionId ELSE NullId
          IN  /\ \A k \in 1..Len(sessions') :
                    s = SessionId(k) => sessions'[k].orderId = OrderId(n)
              /\ s # old
                    => \/ \E i \in Checkouts :
                            /\ chk[i].pc = "attachWrite" /\ chk'[i].pc = "done"
                            /\ chk[i].order = n /\ s = SessionId(chk[i].sess)
                            /\ sessions[chk[i].sess].orderId = OrderId(n)
                       \/ \E w \in Webhooks :
                            /\ HandledCompleted(w)
                            /\ wh[w].pc = "updWrite" /\ wh'[w].wrote = wh[w].wrote + 1
                            /\ wh[w].sid = s /\ wh[w].meta = OrderId(n)]_vars

\* Two orders, the first holding the session of another creator whose
\* metadata named it, the second holding the session its checkout created.
C30_Witness ==
    \E i \in Checkouts :
        /\ Len(orders) = 2 /\ chk[i].order = 2 /\ chk[i].pc = "done"
        /\ orders[2].stripeSessionId = SessionId(chk[i].sess)
        /\ sessions[chk[i].sess].orderId = OrderId(2)
        /\ orders[1].stripeSessionId = ExternalSession
        /\ \E w \in Webhooks : wh[w].sid = ExternalSession /\ wh[w].meta = OrderId(1)

====
